---- MODULE Spec2Model ----
(***************************************************************************)
(* A model of the mDNS discovery engine (discover.rs), the query sender    *)
(* and response listener (mdns.rs), the socket capability of the tokio     *)
(* runtime (runtime/tokio.rs) and the response model (response.rs).        *)
(*                                                                         *)
(* One discovery session is modelled: it is built by a factory, optionally *)
(* configured with ignore_empty, turned into the output stream by listen() *)
(* and then polled by the caller until the caller drops it.  One poll of   *)
(* the output stream (Filter over FilterMap over Select) is one step.      *)
(***************************************************************************)
EXTENDS Integers, Sequences, FiniteSets, TLC

\* ------------------------------------------------------------------ bounds
MaxEvents   == 3      \* what happens around the engine: arrivals at the socket,
                      \* steps of the clock and the drop, taken together
QueryInterval == 1    \* the send_request_interval the session is built with
MaxRecords == 3       \* resource records of one packet, over its three sections
MaxTxtEntries == 3    \* entries of one TXT record
MaxBufLen == 16       \* bytes of a buffer given to send_to directly
MaxDatagrams == 2     \* datagrams the listener reads into its buffer, byte by byte
MaxDatagramLen == 3   \* bytes of one such datagram

\* ------------------------------------------------------- program constants
DEFAULT_BUFFER_SIZE == 4096
MULTICAST_PORT      == 5353
MULTICAST_ADDR      == <<224, 0, 0, 251>>

ServiceNames == {"_svc._tcp.local"}

VARIABLES
    phase,                  \* "built": Discovery exists; "listening": the output
                            \* stream exists; "dropped": the caller dropped it
    service_name,           \* Discovery.service_name
    ignore_empty,           \* Discovery.ignore_empty
    send_request_interval,  \* Discovery.send_request_interval
    multihome,              \* TRUE: Arc<AsyncMulticastSocket>, FALSE: Arc<UdpSocket>
    inbox,                  \* what the socket holds for the next recv_from calls
    received,               \* what recv_from has taken from the socket so far
    listener,               \* position of the try_stream! generator of mDNSListener::listen
    internal_state,         \* Select: which of the two streams has finished
    select_state,           \* Select: the side the round robin polls first next
    now,                    \* the clock, counting from the call of listen()
    deadline,               \* the Interval's next tick instant
    ticks,                  \* Interval items the merged stream has consumed
    tasks,                  \* the detached query tasks, in spawn order
    sent,                   \* the calls of send_to: datagram and destination
    delivered,              \* items the listener stream has yielded
    output,                 \* items the output stream has yielded to the caller
    ended,                  \* poll_next has returned Ready(None)
    logged                  \* number of log records per call site

vars == <<phase, service_name, ignore_empty, send_request_interval, multihome,
          inbox, received, listener, internal_state, select_state, now,
          deadline, ticks, tasks, sent, delivered, output, ended,
          logged>>

\* ---------------------------------------------------------- response model
\* A resource record as the DNS codec hands it over, and its payload.
RR(name, data) == [name |-> name, cls |-> "IN", ttl |-> 120, data |-> data]
RData(t, v) == [t |-> t, v |-> v]

\* Text is a sequence of one-character strings, so that it can be split and
\* folded: <<"k", "=", "v">> is the entry k=v.
Uppers == <<"A", "B", "C", "D", "E", "F", "G", "H", "I", "J", "K", "L", "M",
            "N", "O", "P", "Q", "R", "S", "T", "U", "V", "W", "X", "Y", "Z">>
Lowers == <<"a", "b", "c", "d", "e", "f", "g", "h", "i", "j", "k", "l", "m",
            "n", "o", "p", "q", "r", "s", "t", "u", "v", "w", "x", "y", "z">>

char_to_lowercase(c) ==
    IF \E i \in DOMAIN Uppers : Uppers[i] = c
    THEN Lowers[CHOOSE i \in DOMAIN Uppers : Uppers[i] = c]
    ELSE c

\* str::to_lowercase
to_lowercase(str) == [i \in DOMAIN str |-> char_to_lowercase(str[i])]

\* TxtRecordKey compared as the String it wraps
TxtRecordKey_eq_exact(a, b) == a = b

\* PartialEq for TxtRecordKey
TxtRecordKey_eq(a, b) == to_lowercase(a) = to_lowercase(b)

\* TxtRecordValue
TxtNone == [tag |-> "None", bytes |-> <<>>]
TxtEmpty == [tag |-> "Empty", bytes |-> <<>>]
TxtValue(bytes) == [tag |-> "Value", bytes |-> bytes]

\* txt_record.split(|c| c == &b'='): the pieces between the '=' bytes, all of them
RECURSIVE split(_)
split(bytes) ==
    IF \E i \in DOMAIN bytes : bytes[i] = "="
    THEN LET p == CHOOSE i \in DOMAIN bytes :
                      bytes[i] = "=" /\ \A j \in 1..(i - 1) : bytes[j] # "="
         IN <<SubSeq(bytes, 1, p - 1)>> \o split(SubSeq(bytes, p + 1, Len(bytes)))
    ELSE <<bytes>>

\* the value the loop computes from the second kv_split.next()
txt_value(kv_split) ==
    IF Len(kv_split) >= 2
    THEN IF kv_split[2] = <<>> THEN TxtEmpty ELSE TxtValue(kv_split[2])
    ELSE TxtNone

\* HashMap<TxtRecordKey, _>::contains_key; the map is kept as the sequence of its
\* entries in the order they were inserted
contains_key(txt_records, key) ==
    \E i \in DOMAIN txt_records : TxtRecordKey_eq(txt_records[i].key, key)

\* one iteration of the loop over txt.iter()
txt_insert(txt_records, kv_split) ==
    IF contains_key(txt_records, kv_split[1])
    THEN txt_records
    ELSE Append(txt_records, [key |-> kv_split[1], value |-> txt_value(kv_split)])

\* the loop over the entries that are left, from the map built so far
RECURSIVE txt_loop(_, _)
txt_loop(txt, txt_records) ==
    IF txt = <<>>
    THEN txt_records
    ELSE txt_loop(Tail(txt), txt_insert(txt_records, split(Head(txt))))

\* .into_iter().map(|(key, value)| (key.0, value)).collect() into a
\* HashMap<String, TxtRecordValue>: a function on the keys as they were written
txt_collect(txt_records) ==
    [k \in {txt_records[i].key : i \in DOMAIN txt_records} |->
        txt_records[CHOOSE i \in DOMAIN txt_records :
                        /\ txt_records[i].key = k
                        /\ \A j \in DOMAIN txt_records :
                              txt_records[j].key = k => j <= i].value]

\* HashMap<String, TxtRecordValue>::get on the map of RecordKind::TXT
HashMap_get(map, k) ==
    IF k \in DOMAIN map THEN [some |-> TRUE, value |-> map[k]]
                        ELSE [some |-> FALSE, value |-> TxtNone]

\* "SOA record handling is not implemented".into(): the bytes of the text
SOA_NOT_IMPLEMENTED ==
    <<83, 79, 65, 32, 114, 101, 99, 111, 114, 100, 32, 104, 97, 110, 100,
      108, 105, 110, 103, 32, 105, 115, 32, 110, 111, 116, 32, 105, 109, 112,
      108, 101, 109, 101, 110, 116, 101, 100>>

\* RecordKind::from_rr_data, arm by arm
RecordKind_from_rr_data(data) ==
    CASE data.t = "A"       -> [kind |-> "A", v |-> data.v]
      [] data.t = "AAAA"    -> [kind |-> "AAAA", v |-> data.v]
      [] data.t = "CNAME"   -> [kind |-> "CNAME", v |-> data.v]
      [] data.t = "MX"      -> [kind |-> "MX", v |-> data.v]
      [] data.t = "NS"      -> [kind |-> "NS", v |-> data.v]
      [] data.t = "PTR"     -> [kind |-> "PTR", v |-> data.v]
      [] data.t = "SRV"     -> [kind |-> "SRV", v |-> data.v]
      [] data.t = "TXT"     -> [kind |-> "TXT", v |-> txt_collect(txt_loop(data.v, <<>>))]
      [] data.t = "SOA"     -> [kind |-> "Unimplemented", v |-> SOA_NOT_IMPLEMENTED]
      [] data.t = "Unknown" -> [kind |-> "Unimplemented", v |-> data.v]

Record_from_resource_record(rr) ==
    [name |-> rr.name, class |-> rr.cls, ttl |-> rr.ttl,
     kind |-> RecordKind_from_rr_data(rr.data)]

MapRecords(rrs) == [i \in DOMAIN rrs |-> Record_from_resource_record(rrs[i])]

Response_from_packet(packet) ==
    [answers     |-> MapRecords(packet.answers),
     nameservers |-> MapRecords(packet.nameservers),
     additional  |-> MapRecords(packet.additional)]

\* is_empty looking at the answers only
is_empty_answers_only(response) == response.answers = <<>>

is_empty(response) ==
    response.answers = <<>> /\ response.nameservers = <<>>
        /\ response.additional = <<>>

\* records with the additional section scanned first
records_additional_first(response) ==
    response.additional \o response.answers \o response.nameservers

\* Response::records: answers, then nameservers, then additional
records(response) == response.answers \o response.nameservers \o response.additional

\* Option<IpAddr>, Option<&str>, Option<u16>, Option<SocketAddr>
SomeOf(v) == [some |-> TRUE, v |-> v]
NoAddr == [some |-> FALSE, v |-> <<>>]
NoHost == [some |-> FALSE, v |-> ""]
NoPort == [some |-> FALSE, v |-> 0]
NoSocketAddr == [some |-> FALSE, v |-> [ip |-> <<>>, port |-> 0]]

\* find_map with the closure of ip_addr
RECURSIVE find_map_ip_addr(_)
find_map_ip_addr(recs) ==
    IF recs = <<>> THEN NoAddr
    ELSE CASE Head(recs).kind.kind = "A"    -> SomeOf(Head(recs).kind.v)
           [] Head(recs).kind.kind = "AAAA" -> SomeOf(Head(recs).kind.v)
           [] OTHER -> find_map_ip_addr(Tail(recs))

\* find_map with the closure of hostname
RECURSIVE find_map_hostname(_)
find_map_hostname(recs) ==
    IF recs = <<>> THEN NoHost
    ELSE CASE Head(recs).kind.kind = "PTR" -> SomeOf(Head(recs).kind.v)
           [] OTHER -> find_map_hostname(Tail(recs))

\* find_map with the closure of port
RECURSIVE find_map_port(_)
find_map_port(recs) ==
    IF recs = <<>> THEN NoPort
    ELSE CASE Head(recs).kind.kind = "SRV" -> SomeOf(Head(recs).kind.v.port)
           [] OTHER -> find_map_port(Tail(recs))

ip_addr(response) == find_map_ip_addr(records(response))
hostname(response) == find_map_hostname(records(response))
port(response) == find_map_port(records(response))

\* socket_address with the port left at 0 when no SRV record gives one
socket_address_default_port(response) ==
    IF ip_addr(response).some
    THEN SomeOf([ip |-> ip_addr(response).v, port |-> port(response).v])
    ELSE NoSocketAddr

\* Some((self.ip_addr()?, self.port()?).into())
socket_address(response) ==
    IF ip_addr(response).some /\ port(response).some
    THEN SomeOf([ip |-> ip_addr(response).v, port |-> port(response).v])
    ELSE NoSocketAddr

\* ------------------------------------------------- what the network delivers
\* A decoded DNS message as dns_parser::Packet::parse returns it; ok = FALSE
\* stands for a payload the codec rejects.
Packet(answers, nameservers, additional) ==
    [ok |-> TRUE, answers |-> answers, nameservers |-> nameservers,
     additional |-> additional]
Malformed == [ok |-> FALSE, answers |-> <<>>, nameservers |-> <<>>, additional |-> <<>>]

\* One event at the socket: a datagram of len bytes whose bytes decode to packet,
\* or a failure of the receive itself.
Datagram(len, packet) == [kind |-> "datagram", len |-> len, packet |-> packet, err |-> "none"]
IoFailure(e) == [kind |-> "io_error", len |-> 0, packet |-> Malformed, err |-> e]

PacketMatch ==
    Packet(<<RR("_svc._tcp.local", RData("PTR", "dev._svc._tcp.local"))>>, <<>>,
           <<RR("dev.local", RData("A", <<10, 0, 0, 5>>))>>)
\* the service name appears in additional only; the answer differs from it in case
PacketNoMatch ==
    Packet(<<RR("_SVC._tcp.local", RData("PTR", "dev._svc._tcp.local"))>>, <<>>,
           <<RR("_svc._tcp.local", RData("Unknown", <<1, 2>>))>>)
PacketEmpty == Packet(<<>>, <<>>, <<>>)

DgZero     == Datagram(0, Malformed)
DgCorrupt  == Datagram(7, Malformed)
DgMatch    == Datagram(80, PacketMatch)
DgNoMatch  == Datagram(90, PacketNoMatch)
DgEmpty    == Datagram(12, PacketEmpty)
DgOversize == Datagram(DEFAULT_BUFFER_SIZE + 1, PacketMatch)
DgFailure  == IoFailure("ConnectionReset")

Events == {DgZero, DgCorrupt, DgMatch, DgNoMatch, DgEmpty, DgOversize, DgFailure}

\* ------------------------------------------------------ socket capability
Range(f) == {f[i] : i \in DOMAIN f}
\* F applied to the value of v, which is computed once
With(v, F(_)) == CHOOSE y \in {F(x) : x \in {v}} : TRUE
Min(a, b) == IF a < b THEN a ELSE b

\* AsyncUdpSocket::recv_from on the event at the head of the socket's queue,
\* into a buffer of buf_len bytes.  Arc<UdpSocket> hands the datagram over cut to
\* the buffer; Arc<AsyncMulticastSocket> refuses a payload longer than the buffer.
recv_from(mh, ev, buf_len) ==
    IF ev.kind = "io_error"
    THEN [ok |-> FALSE, count |-> 0, err |-> ev.err]
    ELSE IF mh
         THEN IF ev.len > buf_len
              THEN [ok |-> FALSE, count |-> 0, err |-> "OutOfMemory"]
              ELSE [ok |-> TRUE, count |-> ev.len, err |-> "none"]
         ELSE [ok |-> TRUE, count |-> Min(ev.len, buf_len), err |-> "none"]

\* dns_parser::Packet::parse(&recv_buffer[..count]): the datagram's packet when
\* all its bytes are there; a message cut short does not decode.
Packet_parse(ev, count) == IF count = ev.len THEN ev.packet ELSE Malformed

\* AsyncUdpSocket::send_to; io is what the operating system answers.
\* send_to that hands the buffer to the socket whatever the address family
send_to_any_family(mh, buf, target, io) ==
    IF io = "Ok" THEN [ok |-> TRUE, n |-> buf.len, err |-> "none", handed |-> TRUE]
                 ELSE [ok |-> FALSE, n |-> 0, err |-> io, handed |-> TRUE]

\* handed: the buffer was given to the socket for transmission (broadcast_to on
\* the multi-interface socket, UdpSocket::send_to on the other), which answers io
send_to(mh, buf, target, io) ==
    IF mh
    THEN IF target.family = "V4"
         THEN IF io = "Ok"
              THEN [ok |-> TRUE, n |-> buf.len, err |-> "none", handed |-> TRUE]
              ELSE [ok |-> FALSE, n |-> 0, err |-> io, handed |-> TRUE]
         ELSE [ok |-> FALSE, n |-> 0, err |-> "Unsupported", handed |-> FALSE]
    ELSE IF io = "Ok" THEN [ok |-> TRUE, n |-> buf.len, err |-> "none", handed |-> TRUE]
                      ELSE [ok |-> FALSE, n |-> 0, err |-> io, handed |-> TRUE]

IoOutcomes == {"Ok", "NetworkUnreachable"}

\* ------------------------------------------------------------ query sender
SocketAddr_new(ip, port_number) ==
    [family |-> IF Len(ip) = 4 THEN "V4" ELSE "V6", ip |-> ip, port |-> port_number]

\* build_query asking for a unicast response
build_query_unicast(name) ==
    [len |-> 12 + (Len(name) + 2) + 4, id |-> 0, recursion |-> FALSE, truncated |-> FALSE,
     questions |-> <<[qname |-> name, prefer_unicast |-> TRUE,
                      qtype |-> "PTR", qclass |-> "IN"]>>]

\* dns_parser::Builder::new_query(0, false) with one question, then
\* build().unwrap_or_else(|x| x): the packet is sent whether or not it fits 512
\* bytes, with the truncation bit set when it does not.
build_query(name) ==
    LET len == 12 + (Len(name) + 2) + 4 IN
    [len |-> len, id |-> 0, recursion |-> FALSE, truncated |-> len > 512,
     questions |-> <<[qname |-> name, prefer_unicast |-> FALSE,
                      qtype |-> "PTR", qclass |-> "IN"]>>]

\* what send_request returns for the socket's answer r
send_request_result(r) == IF r.ok THEN "Ok" ELSE r.err

\* mDNSSender::send_request up to its await: the query is built and send_to is
\* called with it and the multicast address.
send_request_call(name) ==
    [buf |-> build_query(name), target |-> SocketAddr_new(MULTICAST_ADDR, MULTICAST_PORT)]

\* A query task from its spawn: it calls send_request, which suspends it in
\* send_to until the socket answers.  (The steps of a spawned task before that
\* await touch nothing but the task itself.)
spawn_query == [pc |-> "sending", sock |-> "none", ret |-> "none"]

\* ------------------------------------------------------- response listener
EmptyResponse == [answers |-> <<>>, nameservers |-> <<>>, additional |-> <<>>]
Ok(response) == [tag |-> "Ok", response |-> response, error |-> "none"]
Err(e) == [tag |-> "Err", response |-> EmptyResponse, error |-> e]
NoItem == [tag |-> "none", response |-> EmptyResponse, error |-> "none"]

\* listen_received with the failure of recv_from yielded from inside the loop,
\* which then goes on receiving
listen_received_resumes(ev, r) ==
    IF ~r.ok
    THEN [act |-> "yield", item |-> Err(r.err), warn |-> 0]
    ELSE IF r.count > 0 /\ Packet_parse(ev, r.count).ok
         THEN [act |-> "yield", warn |-> 0,
               item |-> Ok(Response_from_packet(Packet_parse(ev, r.count)))]
         ELSE [act |-> "continue", item |-> NoItem,
               warn |-> IF r.count > 0 THEN 1 ELSE 0]

\* listen_received without the test count > 0, for a codec that decodes no bytes
\* into a packet with no record
listen_received_zero_yields(ev, r) ==
    IF ~r.ok
    THEN [act |-> "fail", item |-> Err(r.err), warn |-> 0]
    ELSE IF r.count > 0 /\ ~Packet_parse(ev, r.count).ok
         THEN [act |-> "continue", item |-> NoItem, warn |-> 1]
         ELSE [act |-> "yield", warn |-> 0,
               item |-> Ok(IF r.count > 0 THEN Response_from_packet(Packet_parse(ev, r.count))
                                          ELSE EmptyResponse)]

\* listen_received with the decode failure propagated by ? like the receive failure
listen_received_decode_fatal(ev, r) ==
    IF ~r.ok
    THEN [act |-> "fail", item |-> Err(r.err), warn |-> 0]
    ELSE IF r.count > 0
         THEN IF Packet_parse(ev, r.count).ok
              THEN [act |-> "yield", warn |-> 0,
                    item |-> Ok(Response_from_packet(Packet_parse(ev, r.count)))]
              ELSE [act |-> "fail", item |-> Err("Dns"), warn |-> 0]
         ELSE [act |-> "continue", item |-> NoItem, warn |-> 0]

\* The body of the loop of mDNSListener::listen on one receive: "fail" is the ?
\* on recv_from (the generator yields the error and returns), "yield" a decoded
\* response, "continue" the next iteration, with or without the log::warn!.
listen_received(ev, r) ==
    IF ~r.ok
    THEN [act |-> "fail", item |-> Err(r.err), warn |-> 0]
    ELSE IF r.count > 0
         THEN IF Packet_parse(ev, r.count).ok
              THEN [act |-> "yield", warn |-> 0,
                    item |-> Ok(Response_from_packet(Packet_parse(ev, r.count)))]
              ELSE [act |-> "continue", item |-> NoItem, warn |-> 1]
         ELSE [act |-> "continue", item |-> NoItem, warn |-> 0]

listen_body(mh, ev) == listen_received(ev, recv_from(mh, ev, DEFAULT_BUFFER_SIZE))

\* One poll of the generator while it is in its loop: it runs until it yields,
\* fails or finds the socket with nothing to read.  q is the socket's queue, taken
\* what this poll has read so far, warns the warnings it has logged.
RECURSIVE listen_loop(_, _, _, _)
\* what the loop does with the outcome b of its body on the head of q
listen_next(mh, q, taken, warns, b) ==
    CASE b.act = "fail" ->
            [res |-> "Some", item |-> b.item, pc |-> "returning",
             inbox |-> Tail(q), taken |-> Append(taken, Head(q)), warns |-> warns]
      [] b.act = "yield" ->
            [res |-> "Some", item |-> b.item, pc |-> "recv",
             inbox |-> Tail(q), taken |-> Append(taken, Head(q)), warns |-> warns]
      [] b.act = "continue" ->
            listen_loop(mh, Tail(q), Append(taken, Head(q)), warns + b.warn)

listen_loop(mh, q, taken, warns) ==
    IF q = <<>>
    THEN [res |-> "Pending", item |-> NoItem, pc |-> "recv", inbox |-> q,
          taken |-> taken, warns |-> warns]
    ELSE listen_next(mh, q, taken, warns, listen_body(mh, Head(q)))

\* poll_next of the stream try_stream! builds: pc = "recv" while the generator is
\* in its loop, "returning" once it has yielded the error of the ? and has only
\* to return, "done" when it has returned.
poll_response_stream(mh, pc, q) ==
    IF pc = "recv"
    THEN listen_loop(mh, q, <<>>, 0)
    ELSE [res |-> "None", item |-> NoItem, pc |-> "done", inbox |-> q,
          taken |-> <<>>, warns |-> 0]

\* ------------------------------------------------------ interval scheduler
\* create_interval_stream with tokio::time::interval(request_interval), whose
\* first tick is due at once
create_interval_stream_immediate(t, request_interval) == t

\* create_interval_stream: interval_at(Instant::now() + request_interval, ..)
create_interval_stream(t, request_interval) == t + request_interval

\* poll_next of the IntervalStream: a tick that is due is consumed, and the next
\* one is due one period after the deadline of this one.  The stream never ends.
poll_interval(t, d, period) ==
    IF t >= d
    THEN [res |-> "Some", deadline |-> d + period]
    ELSE [res |-> "Pending", deadline |-> d]

\* --------------------------------------------------------- discovery engine
\* The closure listen() maps over the interval stream: the number of query tasks
\* it spawns for one tick.
interval_closure_spawns == 1

\* poll_next of the mapped interval stream: the closure runs on every tick
interval_map(r) ==
    [res |-> r.res, deadline |-> r.deadline,
     spawn |-> IF r.res = "Some" THEN interval_closure_spawns ELSE 0]

poll_interval_stream(t, d, period) == interval_map(poll_interval(t, d, period))

Other(side) == IF side = "Left" THEN "Right" ELSE "Left"

\* InternalState::finish: stream s of Select has returned Ready(None)
Finish(ist, s) ==
    CASE ist = "Start" -> IF s = "Left" THEN "LeftFinished" ELSE "RightFinished"
      [] ist = "LeftFinished" -> IF s = "Right" THEN "BothFinished" ELSE ist
      [] ist = "RightFinished" -> IF s = "Left" THEN "BothFinished" ELSE ist
      [] OTHER -> ist

\* What one poll of Select decides from the results l and r that its two streams
\* give when polled: in state "Start" the side taken from the round robin is
\* polled first and the other one only when the first has no item; once one
\* stream has finished the other alone is polled, and the merged stream ends when
\* both have finished.  The decision names the result, the stream it comes from,
\* whether the left and the right stream were polled, and the new internal state.
select_decide(istate, side, l, r) ==
    LET D(res, sr, useL, useR, ist) ==
            [res |-> res, sr |-> sr, useL |-> useL, useR |-> useR, ist |-> ist]
    IN
    CASE istate = "Start" /\ side = "Left" ->
            IF l = "Some" THEN D("Some", "Response", TRUE, FALSE, "Start")
            ELSE LET ist == IF l = "None" THEN Finish("Start", "Left") ELSE "Start" IN
                 IF r = "Some" THEN D("Some", "Interval", TRUE, TRUE, ist)
                 ELSE IF r = "None"
                      THEN D(IF l = "None" THEN "None" ELSE "Pending", "none",
                             TRUE, TRUE, Finish(ist, "Right"))
                      ELSE D("Pending", "none", TRUE, TRUE, ist)
      [] istate = "Start" /\ side = "Right" ->
            IF r = "Some" THEN D("Some", "Interval", FALSE, TRUE, "Start")
            ELSE LET ist == IF r = "None" THEN Finish("Start", "Right") ELSE "Start" IN
                 IF l = "Some" THEN D("Some", "Response", TRUE, TRUE, ist)
                 ELSE IF l = "None"
                      THEN D(IF r = "None" THEN "None" ELSE "Pending", "none",
                             TRUE, TRUE, Finish(ist, "Left"))
                      ELSE D("Pending", "none", TRUE, TRUE, ist)
      [] istate = "LeftFinished" ->
            IF r = "None" THEN D("None", "none", FALSE, TRUE, "BothFinished")
            ELSE D(r, IF r = "Some" THEN "Interval" ELSE "none", FALSE, TRUE, istate)
      [] istate = "RightFinished" ->
            IF l = "None" THEN D("None", "none", TRUE, FALSE, "BothFinished")
            ELSE D(l, IF l = "Some" THEN "Response" ELSE "none", TRUE, FALSE, istate)
      [] istate = "BothFinished" -> D("None", "none", FALSE, FALSE, istate)

\* What a poll of Select leaves behind: the decision dec, with what the polls it
\* made (l of the response stream, r of the interval stream) did to the listener
\* and to the timer.
\* a Select that polls the same side first every time
select_result_same_side_first(istate, side, pc, q, d, l, r, dec) ==
    [res |-> dec.res, sr |-> dec.sr,
     item |-> IF dec.sr = "Response" THEN l.item ELSE NoItem,
     pc |-> IF dec.useL THEN l.pc ELSE pc,
     inbox |-> IF dec.useL THEN l.inbox ELSE q,
     taken |-> IF dec.useL THEN l.taken ELSE <<>>,
     warns |-> IF dec.useL THEN l.warns ELSE 0,
     deadline |-> IF dec.useR THEN r.deadline ELSE d,
     spawn |-> IF dec.useR THEN r.spawn ELSE 0,
     internal_state |-> dec.ist,
     select_state |-> side]

select_result(istate, side, pc, q, d, l, r, dec) ==
    [res |-> dec.res, sr |-> dec.sr,
     item |-> IF dec.sr = "Response" THEN l.item ELSE NoItem,
     pc |-> IF dec.useL THEN l.pc ELSE pc,
     inbox |-> IF dec.useL THEN l.inbox ELSE q,
     taken |-> IF dec.useL THEN l.taken ELSE <<>>,
     warns |-> IF dec.useL THEN l.warns ELSE 0,
     deadline |-> IF dec.useR THEN r.deadline ELSE d,
     spawn |-> IF dec.useR THEN r.spawn ELSE 0,
     internal_state |-> dec.ist,
     select_state |-> IF istate = "Start" THEN Other(side) ELSE side]

select_merge(istate, side, pc, q, d, l, r) ==
    select_result(istate, side, pc, q, d, l, r, select_decide(istate, side, l.res, r.res))

\* poll_next of select(response_stream, interval_stream)
select_poll(mh, istate, side, pc, q, t, d, period) ==
    With(poll_response_stream(mh, pc, q), LAMBDA l :
    With(poll_interval_stream(t, d, period), LAMBDA r :
         select_merge(istate, side, pc, q, d, l, r)))

\* the closure of filter_map: ticks are dropped, responses go on
filter_map_closure(sr) == sr = "Response"

\* filter_closure looking for the name in records() instead of answers
filter_closure_any_section(res, ignore, name) ==
    IF res.tag = "Ok"
    THEN (~is_empty(res.response) \/ ~ignore)
         /\ \E rec \in Range(res.response.answers) \cup Range(res.response.nameservers)
                         \cup Range(res.response.additional) : rec.name = name
    ELSE TRUE

\* filter_closure applying ignore_empty to errors, which carry no record
filter_closure_hides_errors(res, ignore, name) ==
    IF res.tag = "Ok"
    THEN (~is_empty(res.response) \/ ~ignore)
         /\ \E i \in DOMAIN res.response.answers : res.response.answers[i].name = name
    ELSE ~ignore

\* filter_closure letting an empty response through when ignore_empty is false,
\* without the look at its answers
filter_closure_empty_passes(res, ignore, name) ==
    IF res.tag = "Ok"
    THEN IF is_empty(res.response)
         THEN ~ignore
         ELSE \E i \in DOMAIN res.response.answers : res.response.answers[i].name = name
    ELSE TRUE

\* the closure of filter
filter_closure(res, ignore, name) ==
    IF res.tag = "Ok"
    THEN (~is_empty(res.response) \/ ~ignore)
         /\ \E i \in DOMAIN res.response.answers : res.response.answers[i].name = name
    ELSE TRUE

\* What one poll of the output stream works on and leaves behind: the state of
\* the listener, the socket's queue, Select and the timer, with what the poll has
\* read (taken), what the listener has yielded in it (delivered), the ticks it
\* has consumed, the query tasks it has spawned and the warnings it has logged.
PollStart(pc, q, istate, side, d) ==
    [listener |-> pc, inbox |-> q, internal_state |-> istate, select_state |-> side,
     deadline |-> d, taken |-> <<>>, delivered |-> <<>>, ticks |-> 0, spawned |-> 0,
     warns |-> 0, lwarns |-> 0, ret |-> "Pending", item |-> NoItem]

\* poll_next of the output stream: Filter polls FilterMap, which polls Select; a
\* tick is dropped by filter_map and a response the filter refuses is dropped by
\* filter, and in both cases Select is polled again; a response the filter lets
\* through is returned, and so are Pending and the end of the merged stream.
RECURSIVE poll_next(_, _, _, _, _, _)
\* the state of the poll after Select has answered s, and whether the answer is
\* an item that the two closures let through
poll_record(st, s, isItem, pass) ==
    [listener |-> s.pc, inbox |-> s.inbox,
     internal_state |-> s.internal_state, select_state |-> s.select_state,
     deadline |-> s.deadline,
     taken |-> st.taken \o s.taken,
     delivered |-> IF isItem THEN Append(st.delivered, s.item) ELSE st.delivered,
     ticks |-> st.ticks + (IF s.res = "Some" /\ s.sr = "Interval" THEN 1 ELSE 0),
     spawned |-> st.spawned + s.spawn,
     warns |-> st.warns + s.warns,
     lwarns |-> st.lwarns + (IF isItem /\ s.item.tag = "Err" THEN 1 ELSE 0),
     ret |-> s.res,
     item |-> IF pass THEN s.item ELSE NoItem]

poll_filter(mh, ignore, name, t, period, st, s, isItem) ==
    IF s.res = "Some" /\ ~(isItem /\ filter_closure(s.item, ignore, name))
    THEN With(poll_record(st, s, isItem, FALSE), LAMBDA dropped :
              poll_next(mh, ignore, name, t, period, dropped))
    ELSE poll_record(st, s, isItem, isItem)

poll_filter_map(mh, ignore, name, t, period, st, s) ==
    poll_filter(mh, ignore, name, t, period, st, s,
                s.res = "Some" /\ filter_map_closure(s.sr))

poll_next(mh, ignore, name, t, period, st) ==
    With(select_poll(mh, st.internal_state, st.select_state, st.listener,
                     st.inbox, t, st.deadline, period), LAMBDA s :
         poll_filter_map(mh, ignore, name, t, period, st, s))

\* ------------------------------------------------------------------ actions
Init ==
    /\ phase = "built"
    /\ service_name \in ServiceNames
    /\ ignore_empty = TRUE
    /\ send_request_interval = QueryInterval
    /\ multihome \in BOOLEAN
    /\ inbox = <<>>
    /\ received = <<>>
    /\ listener = "recv"
    /\ internal_state = "Start"
    /\ select_state = "Left"
    /\ now = 0
    /\ deadline = 0
    /\ ticks = 0
    /\ tasks = <<>>
    /\ sent = <<>>
    /\ delivered = <<>>
    /\ output = <<>>
    /\ ended = FALSE
    /\ logged = [send_error |-> 0, decode_warn |-> 0, listener_warn |-> 0]

\* Discovery::ignore_empty(ignore)
SetIgnoreEmpty(ignore) ==
    /\ phase = "built"
    /\ ignore_empty' = ignore
    /\ UNCHANGED <<phase, service_name, send_request_interval, multihome, inbox,
                   received, listener, internal_state, select_state, now, deadline,
                   ticks, tasks, sent, delivered, output, ended, logged>>

\* Discovery::listen(): the interval stream is created, the initial query task is
\* spawned, and the output stream is returned to the caller.
Listen ==
    /\ phase = "built"
    /\ phase' = "listening"
    /\ deadline' = create_interval_stream(now, send_request_interval)
    /\ tasks' = Append(tasks, spawn_query)
    /\ sent' = Append(sent, send_request_call(service_name))
    /\ UNCHANGED <<service_name, ignore_empty, send_request_interval, multihome, inbox,
                   received, listener, internal_state, select_state, now, ticks,
                   delivered, output, ended, logged>>

\* what has happened around the engine so far
EnvEvents ==
    Len(inbox) + Len(received) + now + (IF phase = "dropped" THEN 1 ELSE 0)

\* The network: a datagram, or a receive failure, reaches the socket.
Arrive(ev) ==
    /\ phase # "dropped"    \* with the listener gone nobody reads the socket
    /\ EnvEvents < MaxEvents
    /\ inbox' = Append(inbox, ev)
    /\ UNCHANGED <<phase, service_name, ignore_empty, send_request_interval, multihome,
                   received, listener, internal_state, select_state, now, deadline,
                   ticks, tasks, sent, delivered, output, ended, logged>>

\* Advance for a timer that runs the tick closure itself when a tick becomes due
Advance_fires_ticks ==
    /\ phase # "built"
    /\ EnvEvents < MaxEvents
    /\ now' = now + 1
    /\ IF phase = "listening" /\ now + 1 >= deadline
       THEN /\ deadline' = deadline + send_request_interval
            /\ ticks' = ticks + 1
            /\ tasks' = Append(tasks, spawn_query)
            /\ sent' = Append(sent, send_request_call(service_name))
       ELSE UNCHANGED <<deadline, ticks, tasks, sent>>
    /\ UNCHANGED <<phase, service_name, ignore_empty, send_request_interval, multihome,
                   inbox, received, listener, internal_state, select_state,
                   delivered, output, ended, logged>>

\* Time passes.
Advance ==
    /\ phase # "built"
    /\ EnvEvents < MaxEvents
    /\ now' = now + 1
    /\ UNCHANGED <<phase, service_name, ignore_empty, send_request_interval, multihome,
                   inbox, received, listener, internal_state, select_state, deadline,
                   ticks, tasks, sent, delivered, output, ended, logged>>

\* CanPoll for an engine that awaits the query tasks it has spawned
CanPoll_awaits_tasks == phase = "listening" /\ \A i \in DOMAIN tasks : tasks[i].pc = "done"

\* CanPoll for a merged stream that outlives the handle the caller holds
CanPoll_after_drop == phase # "built"

\* The output stream exists and can be polled.
CanPoll == phase = "listening"

\* What a poll that leaves p behind does to the session.
PollEffect(p) ==
    /\ listener' = p.listener
    /\ inbox' = p.inbox
    /\ received' = received \o p.taken
    /\ internal_state' = p.internal_state
    /\ select_state' = p.select_state
    /\ deadline' = p.deadline
    /\ ticks' = ticks + p.ticks
    /\ tasks' = tasks \o [i \in 1..p.spawned |-> spawn_query]
    /\ sent' = sent \o [i \in 1..p.spawned |-> send_request_call(service_name)]
    /\ delivered' = delivered \o p.delivered
    /\ output' = IF p.ret = "Some" THEN Append(output, p.item) ELSE output
    /\ ended' = (ended \/ p.ret = "None")
    /\ logged' = [logged EXCEPT !.decode_warn = @ + p.warns,
                                !.listener_warn = @ + p.lwarns]
    /\ UNCHANGED <<phase, service_name, ignore_empty, send_request_interval, multihome,
                   now>>

\* The caller polls the output stream: poll_next runs to its return.
Poll ==
    /\ CanPoll
    /\ \E p \in {poll_next(multihome, ignore_empty, service_name, now,
                          send_request_interval,
                          PollStart(listener, inbox, internal_state, select_state,
                                    deadline))} : PollEffect(p)

\* The caller drops the output stream, and with it the listener, the timer and
\* the sender the tick closure keeps.
Drop ==
    /\ phase = "listening"
    /\ EnvEvents < MaxEvents
    /\ phase' = "dropped"
    /\ UNCHANGED <<service_name, ignore_empty, send_request_interval, multihome, inbox,
                   received, listener, internal_state, select_state, now, deadline,
                   ticks, tasks, sent, delivered, output, ended, logged>>

\* TaskReturn with the error of send_request put on the output stream
TaskReturn_surfaces(i, r) ==
    /\ tasks' = [tasks EXCEPT ![i] =
                    [pc |-> "done", sock |-> IF r.ok THEN "Ok" ELSE r.err,
                     ret |-> send_request_result(r)]]
    /\ logged' = [logged EXCEPT
                     !.send_error = @ + (IF send_request_result(r) # "Ok" THEN 1 ELSE 0)]
    /\ output' = IF r.ok THEN output ELSE Append(output, Err(r.err))
    /\ UNCHANGED <<phase, service_name, ignore_empty, send_request_interval, multihome,
                   inbox, received, listener, internal_state, select_state, now,
                   deadline, ticks, sent, delivered, ended>>

\* ------------------------------------------------------- the socket handle
\* The socket is behind an Arc: the listener holds one clone (recv) from
\* mdns_interface until its generator returns or the stream is dropped; the
\* sender (send) is held by Discovery and, from listen() on, by the closure of the
\* interval stream, until the stream is dropped; every query task holds the clone
\* of the sender moved into it until it ends.
listener_holds == phase # "dropped" /\ listener # "done"
sender_holds == phase # "dropped"

\* a query task that borrows the sender instead of owning a clone
task_holds_nothing(i) == FALSE

task_holds(i) == tasks[i].pc = "sending"

\* Arc::strong_count of the socket
strong_count ==
    (IF listener_holds THEN 1 ELSE 0) + (IF sender_holds THEN 1 ELSE 0)
        + Cardinality({i \in DOMAIN tasks : task_holds(i)})

\* the socket is closed by the drop of the last clone
socket_open == strong_count > 0

\* What the return of send_to with r does to query task i: send_request returns,
\* and the task logs the error if there is one and ends.
TaskReturn(i, r) ==
    /\ tasks' = [tasks EXCEPT ![i] =
                    [pc |-> "done", sock |-> IF r.ok THEN "Ok" ELSE r.err,
                     ret |-> send_request_result(r)]]
    /\ logged' = [logged EXCEPT
                     !.send_error = @ + (IF send_request_result(r) # "Ok" THEN 1 ELSE 0)]
    /\ UNCHANGED <<phase, service_name, ignore_empty, send_request_interval, multihome,
                   inbox, received, listener, internal_state, select_state, now,
                   deadline, ticks, sent, delivered, output, ended>>

\* The socket answers the send_to of a query task.
TaskFinish(i, io) ==
    /\ tasks[i].pc = "sending"
    /\ TaskReturn(i, send_to(multihome, sent[i].buf, sent[i].target, io))

Next ==
    \/ \E ignore \in BOOLEAN : SetIgnoreEmpty(ignore)
    \/ Listen
    \/ \E ev \in Events : Arrive(ev)
    \/ Advance
    \/ Poll
    \/ Drop
    \/ \E i \in DOMAIN tasks : \E io \in IoOutcomes : TaskFinish(i, io)

Spec == Init /\ [][Next]_vars

\* The caller keeps polling the output stream for as long as it holds it.
FairSpec == Spec /\ WF_vars(Poll)

\* ------------------------------------------------- the listener on its own
\* mDNSListener::listen polled directly, on one datagram taken from the packets
\* below: the decoding of every kind of record the accessors of Response read.
RecordPool ==
    <<RR("dev.local", RData("A", <<10, 0, 0, 5>>)),
      RR("dev.local", RData("AAAA", <<65152, 0, 0, 0, 0, 0, 0, 1>>)),
      RR("dev._svc._tcp.local",
         RData("SRV", [priority |-> 0, weight |-> 0, port |-> 8080, target |-> "dev.local"])),
      RR("dev._svc._tcp.local",
         RData("SRV", [priority |-> 1, weight |-> 0, port |-> 9090, target |-> "alt.local"])),
      RR("_svc._tcp.local", RData("PTR", "dev._svc._tcp.local")),
      RR("_svc._tcp.local", RData("PTR", "alt._svc._tcp.local")),
      RR("local", RData("SOA", <<2, 110, 115, 0, 0, 0, 0, 1>>)),
      RR("dev.local", RData("Unknown", <<0, 1, 64>>))>>

TxtPool ==
    <<(<<"F", "o", "o", "=", "1">>),
      (<<"f", "o", "o", "=", "2">>),
      (<<"F", "O", "O">>),
      (<<"k", "=">>),
      (<<"a", "=", "b", "=", "c">>),
      (<<"K">>)>>

\* a packet of the records recs, cut into its sections after the i-th and the
\* j-th record
SectionedPacket(recs, i, j) ==
    Packet(SubSeq(recs, 1, i), SubSeq(recs, i + 1, j), SubSeq(recs, j + 1, Len(recs)))

\* a packet with one TXT record of the entries txt
TxtPacket(txt) == Packet(<<RR("dev._svc._tcp.local", RData("TXT", txt))>>, <<>>, <<>>)

PacketLen(packet) ==
    12 + 24 * (Len(packet.answers) + Len(packet.nameservers) + Len(packet.additional))

ListenerInputs(packet) ==
    /\ phase = "built"
    /\ service_name \in ServiceNames
    /\ ignore_empty = TRUE
    /\ send_request_interval = QueryInterval
    /\ multihome = FALSE
    /\ inbox = <<Datagram(PacketLen(packet), packet)>>
    /\ received = <<>>
    /\ listener = "recv"
    /\ internal_state = "Start"
    /\ select_state = "Left"
    /\ now = 0
    /\ deadline = 0
    /\ ticks = 0
    /\ tasks = <<>>
    /\ sent = <<>>
    /\ delivered = <<>>
    /\ output = <<>>
    /\ ended = FALSE
    /\ logged = [send_error |-> 0, decode_warn |-> 0, listener_warn |-> 0]

ListenerInit ==
    \/ \E m \in 0..MaxRecords : \E ix \in [1..m -> DOMAIN RecordPool] :
       \E i \in 0..m : \E j \in i..m :
           ListenerInputs(SectionedPacket([k \in 1..m |-> RecordPool[ix[k]]], i, j))
    \/ \E m \in 0..MaxTxtEntries : \E ix \in [1..m -> DOMAIN TxtPool] :
           ListenerInputs(TxtPacket([k \in 1..m |-> TxtPool[ix[k]]]))

\* what one poll of the listener's stream leaves behind
ListenerEffect(l) ==
    /\ listener' = l.pc
    /\ inbox' = l.inbox
    /\ received' = received \o l.taken
    /\ delivered' = IF l.res = "Some" THEN Append(delivered, l.item) ELSE delivered
    /\ logged' = [logged EXCEPT !.decode_warn = @ + l.warns]
    /\ UNCHANGED <<phase, service_name, ignore_empty, send_request_interval, multihome,
                   internal_state, select_state, now, deadline, ticks, tasks, sent,
                   output, ended>>

\* poll_next of the stream mDNSListener::listen returns
ListenerPoll ==
    /\ inbox # <<>>
    /\ \E l \in {poll_response_stream(multihome, listener, inbox)} : ListenerEffect(l)

ListenerNext == ListenerPoll

ListenerSpec == ListenerInit /\ [][ListenerNext]_vars

\* ------------------------------------------- the listener's receive buffer
\* The listener with the bytes of its buffer.  Datagrams are byte strings in a
\* wire format cut down from that of DNS: the first byte is the number of answer
\* records and each byte after it is one record; like dns_parser, the decoder
\* reads as many records as the header announces, fails when the bytes end
\* before that, and does not look at bytes after the last record.
WireBytes == 1..2
Wire_record(b) == IF b = 1 THEN RecordPool[5] ELSE RecordPool[1]

\* dns_parser::Packet::parse on a byte string
Wire_parse(bytes) ==
    IF bytes = <<>> \/ Len(bytes) < 1 + bytes[1]
    THEN Malformed
    ELSE Packet([i \in 1..bytes[1] |-> Wire_record(bytes[i + 1])], <<>>, <<>>)

\* a datagram at the socket with its bytes, and a failure of the receive
WireDatagram(bytes) ==
    [kind |-> "datagram", len |-> Len(bytes), packet |-> Wire_parse(bytes),
     err |-> "none", bytes |-> bytes]
WireFailure(e) ==
    [kind |-> "io_error", len |-> 0, packet |-> Malformed, err |-> e, bytes |-> <<>>]

ByteStrings == UNION {[1..n -> WireBytes] : n \in 0..MaxDatagramLen}

\* recv_from(&mut self.recv_buffer) answering r: the first r.count bytes of the
\* datagram are written over the start of the buffer and the bytes after them
\* stay as they were.  The buffer is given by the bytes written into it so far;
\* behind them are the zeros of vec![0; DEFAULT_BUFFER_SIZE].
buffer_write(buf, ev, r) ==
    IF r.ok
    THEN [i \in 1..(IF Len(buf) > r.count THEN Len(buf) ELSE r.count) |->
             IF i <= r.count THEN ev.bytes[i] ELSE buf[i]]
    ELSE buf

\* the whole of what the buffer holds, in place of its first count bytes
listen_slice_whole_buffer(buf, count) == buf

\* &self.recv_buffer[..count]
listen_slice(buf, count) == SubSeq(buf, 1, count)

\* The body of the loop of mDNSListener::listen after recv_from has answered r
\* and left buf in the buffer.
listen_received_buffer(buf, r) ==
    IF ~r.ok
    THEN [act |-> "fail", item |-> Err(r.err), warn |-> 0]
    ELSE IF r.count > 0
         THEN IF Wire_parse(listen_slice(buf, r.count)).ok
              THEN [act |-> "yield", warn |-> 0,
                    item |-> Ok(Response_from_packet(
                                    Wire_parse(listen_slice(buf, r.count))))]
              ELSE [act |-> "continue", item |-> NoItem, warn |-> 1]
         ELSE [act |-> "continue", item |-> NoItem, warn |-> 0]

\* self.recv_buffer after the receives of evs, starting from buf
RECURSIVE recv_buffer_after(_, _, _)
recv_buffer_after(mh, evs, buf) ==
    IF evs = <<>>
    THEN buf
    ELSE recv_buffer_after(mh, Tail(evs),
             buffer_write(buf, Head(evs), recv_from(mh, Head(evs), DEFAULT_BUFFER_SIZE)))

\* self.recv_buffer: nothing but the receives of the listener writes to it
recv_buffer == recv_buffer_after(multihome, received, <<>>)

BufferInputs(mh, q) ==
    /\ phase = "built"
    /\ service_name \in ServiceNames
    /\ ignore_empty = TRUE
    /\ send_request_interval = QueryInterval
    /\ multihome = mh
    /\ inbox = q
    /\ received = <<>>
    /\ listener = "recv"
    /\ internal_state = "Start"
    /\ select_state = "Left"
    /\ now = 0
    /\ deadline = 0
    /\ ticks = 0
    /\ tasks = <<>>
    /\ sent = <<>>
    /\ delivered = <<>>
    /\ output = <<>>
    /\ ended = FALSE
    /\ logged = [send_error |-> 0, decode_warn |-> 0, listener_warn |-> 0]

\* up to MaxDatagrams datagrams wait at the socket, or a failure of the receive
\* after the first of them
BufferInit ==
    \E mh \in BOOLEAN, m \in 0..MaxDatagrams :
        \E bs \in [1..m -> ByteStrings], fails \in BOOLEAN :
            BufferInputs(mh, [i \in 1..m |->
                                 IF fails /\ i = 2 THEN WireFailure("ConnectionReset")
                                                   ELSE WireDatagram(bs[i])])

\* what one turn of the loop that ends in b does to the listener
BufferEffect(b) ==
    /\ received' = Append(received, Head(inbox))
    /\ inbox' = Tail(inbox)
    /\ delivered' = IF b.act = "continue" THEN delivered ELSE Append(delivered, b.item)
    /\ listener' = IF b.act = "fail" THEN "returning" ELSE "recv"
    /\ logged' = [logged EXCEPT !.decode_warn = @ + b.warn]
    /\ UNCHANGED <<phase, service_name, ignore_empty, send_request_interval, multihome,
                   internal_state, select_state, now, deadline, ticks, tasks, sent,
                   output, ended>>

\* One turn of the loop of mDNSListener::listen: recv_from into the buffer, then
\* the decoding of its first count bytes.
BufferReceive ==
    /\ listener = "recv"
    /\ inbox # <<>>
    /\ \E r \in {recv_from(multihome, Head(inbox), DEFAULT_BUFFER_SIZE)} :
       \E buf \in {buffer_write(recv_buffer, Head(inbox), r)} :
       \E b \in {listen_received_buffer(buf, r)} : BufferEffect(b)

BufferNext == BufferReceive

BufferSpec == BufferInit /\ [][BufferNext]_vars

\* --------------------------------------------------- the socket's send_to alone
\* A caller of AsyncUdpSocket::send_to on either socket kind, with a buffer of
\* up to MaxBufLen bytes and an IPv4 multicast, IPv4 unicast or IPv6 multicast
\* destination.
RawBuffer(n) ==
    [len |-> n, id |-> 0, recursion |-> FALSE, truncated |-> FALSE, questions |-> <<>>]

SenderTargets ==
    {SocketAddr_new(MULTICAST_ADDR, MULTICAST_PORT),
     SocketAddr_new(<<10, 0, 0, 5>>, MULTICAST_PORT),
     SocketAddr_new(<<65282, 0, 0, 0, 0, 0, 0, 251>>, MULTICAST_PORT)}

\* the caller suspended in send_to(buf, target)
SenderInputs(mh, buf, target) ==
    /\ phase = "built"
    /\ service_name \in ServiceNames
    /\ ignore_empty = TRUE
    /\ send_request_interval = QueryInterval
    /\ multihome = mh
    /\ inbox = <<>>
    /\ received = <<>>
    /\ listener = "recv"
    /\ internal_state = "Start"
    /\ select_state = "Left"
    /\ now = 0
    /\ deadline = 0
    /\ ticks = 0
    /\ tasks = <<[pc |-> "sending", sock |-> "none", ret |-> 0, handed |-> FALSE]>>
    /\ sent = <<[buf |-> buf, target |-> target]>>
    /\ delivered = <<>>
    /\ output = <<>>
    /\ ended = FALSE
    /\ logged = [send_error |-> 0, decode_warn |-> 0, listener_warn |-> 0]

SenderInit ==
    \E mh \in BOOLEAN, n \in 0..MaxBufLen, target \in SenderTargets :
        SenderInputs(mh, RawBuffer(n), target)

\* send_to returns to its caller: the error kind or Ok, the byte count, and
\* whether the buffer went to the socket
SendToReturn(i, io) ==
    /\ tasks[i].pc = "sending"
    /\ \E r \in {send_to(multihome, sent[i].buf, sent[i].target, io)} :
          tasks' = [tasks EXCEPT ![i] =
                       [pc |-> "done", sock |-> IF r.ok THEN "Ok" ELSE r.err,
                        ret |-> r.n, handed |-> r.handed]]
    /\ UNCHANGED <<phase, service_name, ignore_empty, send_request_interval, multihome,
                   inbox, received, listener, internal_state, select_state, now,
                   deadline, ticks, sent, delivered, output, ended, logged>>

SenderNext == \E i \in DOMAIN tasks, io \in IoOutcomes : SendToReturn(i, io)

SenderSpec == SenderInit /\ [][SenderNext]_vars

\* --------------------------------------------------------------- properties
IsOk(it) == it.tag = "Ok"
IsErr(it) == it.tag = "Err"
HasAnswerNamed(it) ==
    \E i \in DOMAIN it.response.answers : it.response.answers[i].name = service_name
NonEmpty(it) ==
    Len(it.response.answers) + Len(it.response.nameservers)
        + Len(it.response.additional) > 0
ShouldBeYielded(it) == (NonEmpty(it) \/ ignore_empty = FALSE) /\ HasAnswerNamed(it)

\* C1: the responses the output stream has yielded are exactly, and in order,
\* the responses the listener has delivered that are (not empty or ignore_empty
\* is false) and have a record in answers named exactly like the service; no
\* response without such a record is ever yielded.
C1_FilterContract ==
    /\ SelectSeq(output, IsOk) = SelectSeq(SelectSeq(delivered, IsOk), ShouldBeYielded)
    /\ \A i \in DOMAIN output : IsOk(output[i]) => HasAnswerNamed(output[i])

\* ignore_empty is false, an empty response and a matching one were delivered,
\* and only the matching one was yielded
C1_Witness ==
    /\ ignore_empty = FALSE
    /\ \E i \in DOMAIN delivered : delivered[i] = Ok(EmptyResponse)
    /\ \E j \in DOMAIN output : IsOk(output[j])
    /\ Len(output) < Len(delivered)

\* C2: a failed receive is the last thing the listener reads; its error is on
\* the output stream, once, and it is the last item of the output stream.
C2_ErrorOnceThenNothing ==
    /\ \A i \in DOMAIN output : IsErr(output[i]) => i = Len(output)
    /\ \A k \in DOMAIN received :
          received[k].kind = "io_error" =>
              /\ k = Len(received)
              /\ output # <<>>
              /\ output[Len(output)] = Err(received[k].err)

\* the error was yielded, the stream was polled again with a tick due and a
\* datagram waiting at the socket, and the error still is the last item
C2_Witness ==
    /\ \E i \in DOMAIN output : IsErr(output[i])
    /\ \E k \in DOMAIN received : received[k].kind = "io_error"
    /\ internal_state = "LeftFinished"
    /\ inbox # <<>>
    /\ ticks >= 1

\* C3: once an error has been yielded, a caller that keeps polling (and does not
\* drop the stream) gets the end of the sequence.
C3_SequenceEnds ==
    (\E i \in DOMAIN output : IsErr(output[i])) ~> (ended \/ phase = "dropped")

Decodes(ev) ==
    ev.kind = "datagram" /\ ev.len > 0 /\ ev.len <= DEFAULT_BUFFER_SIZE /\ ev.packet.ok
Corrupted(ev) ==
    ev.kind = "datagram" /\ ev.len > 0 /\ ev.len <= DEFAULT_BUFFER_SIZE /\ ~ev.packet.ok
DecodedOf(evs) == [k \in DOMAIN evs |-> Ok(Response_from_packet(evs[k].packet))]

\* C4: as long as every datagram read either decodes or is corrupted (no receive
\* has failed), the listener is still receiving, it has delivered exactly the
\* decodable datagrams, in the order they were read, and nothing for a corrupted
\* one, and no error is on the output stream.
C4_CorruptSkipped ==
    (\A k \in DOMAIN received : Decodes(received[k]) \/ Corrupted(received[k])) =>
        /\ listener = "recv"
        /\ delivered = DecodedOf(SelectSeq(received, Decodes))
        /\ \A i \in DOMAIN output : IsOk(output[i])

\* valid, corrupted, valid were read, and both valid ones were delivered and yielded
C4_Witness ==
    /\ received = <<DgMatch, DgCorrupt, DgMatch>>
    /\ Len(delivered) = 2
    /\ Len(output) = 2

\* C5: no query task exists before listen(); from listen() on, the number of
\* query tasks spawned is 1 + the number of ticks consumed, and the k-th tick is
\* not consumed before k intervals have passed since listen(): the first not at
\* time zero.
C5_QueryPerTick ==
    /\ phase = "built" => Len(tasks) = 0 /\ ticks = 0
    /\ phase # "built" => Len(tasks) = 1 + ticks
    /\ ticks >= 1 => now >= send_request_interval
    /\ ticks * send_request_interval <= now

\* two ticks were consumed, so three query tasks were spawned
C5_Witness == ticks = 2 /\ Len(tasks) = 3

\* C6: every error the listener has delivered is on the output stream, whatever
\* ignore_empty and the service name are.
C6_ErrorsForwarded == SelectSeq(output, IsErr) = SelectSeq(delivered, IsErr)

\* an error was delivered and yielded with ignore_empty set
C6_Witness ==
    /\ ignore_empty = TRUE
    /\ \E i \in DOMAIN delivered : IsErr(delivered[i])
    /\ \E i \in DOMAIN output : IsErr(output[i])

SendFails ==
    \E i \in DOMAIN tasks :
        tasks[i].pc = "sending" /\ tasks'[i].pc = "done" /\ tasks'[i].ret # "Ok"
OnlyLogged ==
    /\ logged' = [logged EXCEPT !.send_error = @ + 1]
    /\ UNCHANGED <<output, ended, delivered, listener, inbox, received,
                   internal_state, select_state, now, deadline, ticks, phase, sent>>
    /\ Len(tasks') = Len(tasks)

\* C7: a step in which send_request fails in a query task adds one record to
\* the log and changes nothing else but that task: not the output stream, not its
\* end, not the listener, and nothing of what decides whether later ticks spawn
\* query tasks (the timer, Select, the phase).
C7_SendFailureOnlyLogged == [][SendFails => OnlyLogged]_vars

\* a query task has failed, and the session has yielded a response and has
\* spawned a query task on a tick
C7_Witness ==
    /\ \E i \in DOMAIN tasks : tasks[i].pc = "done" /\ tasks[i].ret # "Ok"
    /\ logged.send_error >= 1
    /\ output # <<>>
    /\ ticks >= 1

\* C8: once the output stream is dropped it stays dropped, and no step spawns
\* a query task or consumes a tick.
C8_NoQueryAfterDrop ==
    [][phase = "dropped" =>
          phase' = "dropped" /\ Len(tasks') = Len(tasks) /\ sent' = sent /\ ticks' = ticks]_vars

\* the stream is dropped and a tick is due
C8_Witness == phase = "dropped" /\ now >= deadline /\ now >= 1

\* C9: on a multi-interface session, as long as only datagrams were read (no
\* receive failed in the operating system), the listener is still receiving, also
\* after a datagram longer than the receive buffer.
C9_OversizeNotFatal ==
    (multihome /\ \A k \in DOMAIN received : received[k].kind = "datagram") =>
        listener = "recv"

\* C10: every query task has made one call of send_to, to 224.0.0.251:5353,
\* with a query of id 0, no recursion bit and one question, PTR IN for the service
\* name, not asking for a unicast response; and send_request has returned Ok if
\* the socket's send succeeded and the socket's error otherwise.
C10_QueryDatagram ==
    /\ Len(sent) = Len(tasks)
    /\ \A i \in DOMAIN sent :
          /\ sent[i].target = [family |-> "V4", ip |-> <<224, 0, 0, 251>>, port |-> 5353]
          /\ sent[i].buf.id = 0
          /\ sent[i].buf.recursion = FALSE
          /\ sent[i].buf.questions =
                 <<[qname |-> service_name, prefer_unicast |-> FALSE,
                    qtype |-> "PTR", qclass |-> "IN"]>>
    /\ \A i \in DOMAIN tasks :
          tasks[i].pc = "done" =>
              /\ tasks[i].ret = "Ok" <=> tasks[i].sock = "Ok"
              /\ tasks[i].sock # "Ok" => tasks[i].ret = tasks[i].sock

\* one query task has returned Ok and another the socket's error
C10_Witness ==
    \E i, j \in DOMAIN tasks :
        tasks[i].ret = "Ok" /\ tasks[j].ret = "NetworkUnreachable"

\* the TXT records a datagram carries in its answers, and what became of them
IsTxt(rr) == rr.data.t = "TXT"
TxtKey(entry) ==
    IF \E i \in DOMAIN entry : entry[i] = "="
    THEN SubSeq(entry, 1, (CHOOSE i \in DOMAIN entry :
                               entry[i] = "=" /\ \A j \in 1..(i - 1) : entry[j] # "=") - 1)
    ELSE entry
SameKey(a, b) == to_lowercase(a) = to_lowercase(b)
FirstWithKey(txt, key) ==
    CHOOSE e \in DOMAIN txt :
        SameKey(TxtKey(txt[e]), key) /\ \A f \in 1..(e - 1) : ~SameKey(TxtKey(txt[f]), key)
\* entries txt were decoded into the mapping map: every key of txt, however often
\* and in whatever case it occurs, has one entry, with the value of its first occurrence
FirstOccurrenceWins(txt, map) ==
    /\ \A e \in DOMAIN txt :
          /\ Cardinality({k \in DOMAIN map : SameKey(k, TxtKey(txt[e]))}) = 1
          /\ \A k \in DOMAIN map :
                SameKey(k, TxtKey(txt[e])) =>
                    map[k] = txt_value(split(txt[FirstWithKey(txt, TxtKey(txt[e]))]))
    /\ \A k \in DOMAIN map : \E e \in DOMAIN txt : SameKey(k, TxtKey(txt[e]))

\* C11: for every TXT record decoded, each key of its entries, compared ignoring
\* case, has exactly one entry in the decoded mapping, and that entry carries the
\* value of the first occurrence of the key; the later occurrences leave no trace
\* and no error.
C11_FirstOccurrenceWins ==
    \A d \in DOMAIN delivered :
        /\ IsOk(delivered[d])
        /\ \A a \in DOMAIN received[d].packet.answers :
              IsTxt(received[d].packet.answers[a]) =>
                  FirstOccurrenceWins(received[d].packet.answers[a].data.v,
                                      delivered[d].response.answers[a].kind.v)

\* Foo=1, foo=2, FOO were decoded into the one entry Foo -> Value("1")
C11_Witness ==
    /\ Len(delivered) = 1
    /\ received[1].packet = TxtPacket(<<TxtPool[1], TxtPool[2], TxtPool[3]>>)
    /\ DOMAIN delivered[1].response.answers[1].kind.v = {<<"F", "o", "o">>}
    /\ delivered[1].response.answers[1].kind.v[<<"F", "o", "o">>] = TxtValue(<<"1">>)

\* all the bytes of the entry after its first '='
TxtContent(entry) == SubSeq(entry, Len(TxtKey(entry)) + 2, Len(entry))
ValueAtFirstEquals(entry) ==
    IF \A i \in DOMAIN entry : entry[i] # "="
    THEN TxtNone
    ELSE IF TxtContent(entry) = <<>> THEN TxtEmpty ELSE TxtValue(TxtContent(entry))
SplitAtFirstEquals(txt, map) ==
    \A e \in DOMAIN txt :
        FirstWithKey(txt, TxtKey(txt[e])) = e =>
            /\ TxtKey(txt[e]) \in DOMAIN map
            /\ map[TxtKey(txt[e])] = ValueAtFirstEquals(txt[e])

\* C12: every entry of a decoded TXT record that is the first with its key is in
\* the mapping under the bytes before its first '=', with None when it has no '=',
\* Empty when nothing follows the first '=', and otherwise Value of all the bytes
\* that follow the first '=', further '=' bytes included.
C12_SplitAtFirstEquals ==
    \A d \in DOMAIN delivered :
        \A a \in DOMAIN received[d].packet.answers :
            IsTxt(received[d].packet.answers[a]) =>
                SplitAtFirstEquals(received[d].packet.answers[a].data.v,
                                   delivered[d].response.answers[a].kind.v)

char_to_uppercase(c) ==
    IF \E i \in DOMAIN Lowers : Lowers[i] = c
    THEN Uppers[CHOOSE i \in DOMAIN Lowers : Lowers[i] = c]
    ELSE c
to_uppercase(str) == [i \in DOMAIN str |-> char_to_uppercase(str[i])]
FoundInAnyCase(map) ==
    \A k \in DOMAIN map :
        \A q \in {k, to_lowercase(k), to_uppercase(k)} :
            HashMap_get(map, q) = [some |-> TRUE, value |-> map[k]]

\* C13: in the mapping of every decoded TXT record, an entry is found under its
\* key as it was written, under the key in lower case and under the key in upper
\* case alike, with the same value.
C13_LookupIgnoresCase ==
    \A d \in DOMAIN delivered :
        \A a \in DOMAIN delivered[d].response.answers :
            delivered[d].response.answers[a].kind.kind = "TXT" =>
                FoundInAnyCase(delivered[d].response.answers[a].kind.v)

\* the records of a response, whatever their section
AllRecords(response) ==
    {response.answers[i] : i \in DOMAIN response.answers}
        \cup {response.nameservers[i] : i \in DOMAIN response.nameservers}
        \cup {response.additional[i] : i \in DOMAIN response.additional}
HasAddress(response) == \E rec \in AllRecords(response) : rec.kind.kind \in {"A", "AAAA"}
HasSrv(response) == \E rec \in AllRecords(response) : rec.kind.kind = "SRV"

\* C14: for every decoded response, socket_address() is Some exactly when some
\* section holds an A or AAAA record and some section holds an SRV record, and
\* then it is the pair of ip_addr() and port(); otherwise it is None.
C14_SocketAddress ==
    \A d \in DOMAIN delivered :
        /\ socket_address(delivered[d].response).some
              <=> (HasAddress(delivered[d].response) /\ HasSrv(delivered[d].response))
        /\ socket_address(delivered[d].response).some =>
              socket_address(delivered[d].response).v =
                  [ip |-> ip_addr(delivered[d].response).v,
                   port |-> port(delivered[d].response).v]
        /\ ~socket_address(delivered[d].response).some =>
              socket_address(delivered[d].response) = NoSocketAddr

\* an SRV record in the answers and an A record in the additional section gave
\* 10.0.0.5:8080
C14_Witness ==
    /\ Len(delivered) = 1
    /\ delivered[1].response.answers # <<>>
    /\ delivered[1].response.answers[1].kind.kind = "SRV"
    /\ delivered[1].response.additional # <<>>
    /\ delivered[1].response.additional[1].kind.kind = "A"
    /\ socket_address(delivered[1].response) =
           SomeOf([ip |-> <<10, 0, 0, 5>>, port |-> 8080])

\* C15: for every decoded response, is_empty() is true exactly when answers,
\* nameservers and additional hold no record at all.
C15_IsEmpty ==
    \A d \in DOMAIN delivered :
        is_empty(delivered[d].response)
            <=> (Len(delivered[d].response.answers) + Len(delivered[d].response.nameservers)
                     + Len(delivered[d].response.additional) = 0)

\* a response whose only record is in the additional section is not empty
C15_Witness ==
    /\ Len(delivered) = 1
    /\ delivered[1].response.answers = <<>>
    /\ delivered[1].response.nameservers = <<>>
    /\ Len(delivered[1].response.additional) = 1
    /\ ~is_empty(delivered[1].response)

PollWith(ignore) ==
    poll_next(multihome, ignore, service_name, now, send_request_interval,
              PollStart(listener, inbox, internal_state, select_state, deadline))
ErrOrAnswerNamed(it) == IsErr(it) \/ HasAnswerNamed(it)

SomeTaskSuspended == \E i \in DOMAIN tasks : tasks[i].pc = "sending"
YieldsTheResponse == Poll /\ output' = Append(output, Ok(Response_from_packet(PacketMatch)))
SpawnsOnTheTick == Poll /\ ticks' > ticks /\ Len(tasks') = Len(tasks) + (ticks' - ticks)

\* C17: in every state in which the stream is held and some query task is still
\* suspended in its send, a poll decodes and yields a matching datagram that is
\* next at the socket, and a poll with a tick due and nothing to read spawns the
\* query tasks of the ticks due.
C17_EngineDoesNotWait ==
    (phase = "listening" /\ SomeTaskSuspended) =>
        /\ (listener = "recv" /\ inbox # <<>> /\ Head(inbox) = DgMatch)
               => ENABLED YieldsTheResponse
        /\ (now >= deadline /\ (inbox = <<>> \/ listener # "recv"))
               => ENABLED SpawnsOnTheTick

\* no query task has ever finished, the first one included, and yet a response
\* was yielded and a tick has spawned its task
C17_Witness ==
    /\ Len(tasks) >= 2
    /\ \A i \in DOMAIN tasks : tasks[i].pc = "sending"
    /\ ticks >= 1
    /\ \E i \in DOMAIN output : IsOk(output[i])

C19_ListenerSequence ==
    /\ SelectSeq(delivered, IsOk) = DecodedOf(SelectSeq(received, Decodes))
    /\ \A i \in DOMAIN delivered : IsErr(delivered[i]) => i = Len(delivered)

\* a response without a matching answer, a datagram of zero bytes and a matching
\* response were received: two responses were delivered, in that order
C19_Witness ==
    /\ received = <<DgNoMatch, DgZero, DgMatch>>
    /\ delivered = <<Ok(Response_from_packet(PacketNoMatch)),
                     Ok(Response_from_packet(PacketMatch))>>

OfKind(rec, kinds) == rec.kind.kind \in kinds
FirstIn(section, kinds) ==
    section[CHOOSE i \in DOMAIN section :
                OfKind(section[i], kinds) /\ \A j \in 1..(i - 1) : ~OfKind(section[j], kinds)]
InSection(section, kinds) == \E i \in DOMAIN section : OfKind(section[i], kinds)
\* the first record of one of the kinds: of the answers if there is one, else of
\* the nameservers if there is one, else of the additional section
FirstInScan(response, kinds) ==
    IF InSection(response.answers, kinds) THEN FirstIn(response.answers, kinds)
    ELSE IF InSection(response.nameservers, kinds) THEN FirstIn(response.nameservers, kinds)
    ELSE FirstIn(response.additional, kinds)
InResponse(response, kinds) ==
    InSection(response.answers, kinds) \/ InSection(response.nameservers, kinds)
        \/ InSection(response.additional, kinds)
FirstInScanOrder(response) ==
    /\ ip_addr(response) =
           IF InResponse(response, {"A", "AAAA"})
           THEN SomeOf(FirstInScan(response, {"A", "AAAA"}).kind.v) ELSE NoAddr
    /\ hostname(response) =
           IF InResponse(response, {"PTR"})
           THEN SomeOf(FirstInScan(response, {"PTR"}).kind.v) ELSE NoHost
    /\ port(response) =
           IF InResponse(response, {"SRV"})
           THEN SomeOf(FirstInScan(response, {"SRV"}).kind.v.port) ELSE NoPort

\* C20: for every decoded response, ip_addr() is the address of the first A or
\* AAAA record in the order answers, nameservers, additional and the order of the
\* records inside each section, whichever of the two kinds it is, and None when
\* there is neither; hostname() and port() are the first PTR target and the first
\* SRV port in the same order, and None when there is none.
C20_FirstInScanOrder ==
    \A d \in DOMAIN delivered : FirstInScanOrder(delivered[d].response)

\* the AAAA record of the answers comes before the A record of the nameservers
\* and gives the address; the SRV record of the additional section gives the port
C20_Witness ==
    /\ Len(delivered) = 1
    /\ Len(delivered[1].response.answers) = 1
    /\ delivered[1].response.answers[1].kind.kind = "AAAA"
    /\ Len(delivered[1].response.nameservers) = 1
    /\ delivered[1].response.nameservers[1].kind.kind = "A"
    /\ Len(delivered[1].response.additional) = 1
    /\ delivered[1].response.additional[1].kind.kind = "SRV"
    /\ ip_addr(delivered[1].response) = SomeOf(<<65152, 0, 0, 0, 0, 0, 0, 1>>)
    /\ port(delivered[1].response) = SomeOf(9090)

IsUnimplementedType(rr) == rr.data.t \in {"SOA", "Unknown"}
\* what a section of the packet became: as many records, each from the resource
\* record at its place, and those of type SOA or unknown as Unimplemented with the
\* payload of the resource record
SectionDecoded(rrs, recs) ==
    /\ Len(recs) = Len(rrs)
    /\ \A i \in DOMAIN rrs :
          /\ recs[i].name = rrs[i].name
          /\ IsUnimplementedType(rrs[i]) =>
                recs[i].kind = [kind |-> "Unimplemented", v |-> rrs[i].data.v]
          /\ ~IsUnimplementedType(rrs[i]) => recs[i].kind.kind = rrs[i].data.t

\* C21: every datagram whose packet parses is decoded into a response, also
\* with records of type SOA or unknown in it; each section has its records in the
\* order of the packet; and a record of type SOA or unknown is Unimplemented with
\* the raw payload of the resource record.
C21_UnimplementedKeepsPayload ==
    \A d \in DOMAIN received :
        /\ d \in DOMAIN delivered
        /\ IsOk(delivered[d])
        /\ SectionDecoded(received[d].packet.answers, delivered[d].response.answers)
        /\ SectionDecoded(received[d].packet.nameservers, delivered[d].response.nameservers)
        /\ SectionDecoded(received[d].packet.additional, delivered[d].response.additional)

\* C22: on the multi-interface socket, send_to with an IPv6 destination answers
\* Unsupported and gives the socket nothing to transmit, whatever the socket
\* would have answered; with an IPv4 destination it gives the buffer to the
\* socket and, when the socket succeeds, returns the length of the buffer.
C22_MultihomeSendTo ==
    multihome =>
      \A i \in DOMAIN tasks :
        /\ sent[i].target.family = "V6" =>
              /\ \A io \in IoOutcomes :
                    send_to(multihome, sent[i].buf, sent[i].target, io) =
                        [ok |-> FALSE, n |-> 0, err |-> "Unsupported", handed |-> FALSE]
              /\ tasks[i].pc = "done" =>
                    tasks[i].sock = "Unsupported" /\ ~tasks[i].handed
        /\ sent[i].target.family = "V4" =>
              /\ send_to(multihome, sent[i].buf, sent[i].target, "Ok") =
                    [ok |-> TRUE, n |-> sent[i].buf.len, err |-> "none", handed |-> TRUE]
              /\ tasks[i].pc = "done" => tasks[i].handed
              /\ tasks[i].pc = "done" /\ tasks[i].sock = "Ok" =>
                    tasks[i].ret = sent[i].buf.len

\* send_to with an IPv6 destination has returned on the multi-interface socket
C22_Witness ==
    /\ multihome
    /\ phase = "built"
    /\ \E i \in DOMAIN tasks :
          /\ tasks[i].pc = "done"
          /\ sent[i].target.family = "V6"
          /\ sent[i].buf.len > 0
          /\ tasks[i].sock = "Unsupported"

\* the poll that follows a poll that left p behind, when the datagrams of more
\* have reached the socket in between
PollAfter(p, more) ==
    poll_next(multihome, ignore_empty, service_name, now, send_request_interval,
              PollStart(p.listener, p.inbox \o more, p.internal_state, p.select_state,
                        p.deadline))
Arrivals == {<<>>} \cup {<<ev>> : ev \in Events}
TickDue == now >= deadline
ProcessesTick(p) == p.ticks >= 1 /\ p.spawned = p.ticks
ReadsHead(p) ==
    /\ p.taken # <<>>
    /\ p.taken[1] = Head(inbox)
    /\ Decodes(Head(inbox)) /\ ShouldBeYielded(Ok(Response_from_packet(Head(inbox).packet)))
          => p.ret = "Some" /\ p.item = Ok(Response_from_packet(Head(inbox).packet))

\* C23: neither source of the merged stream starves the other.  While the
\* stream is held, a tick that is due is processed, and its query task spawned,
\* by the next poll or by the one after it, whatever waits at the socket and
\* whatever arrives between the two polls; and while the listener is receiving,
\* the datagram that is next at the socket is read by the next poll, and yielded
\* by it if it passes the filter, however many ticks are due.
C23_NoStarvation ==
    CanPoll =>
        \A p \in {PollWith(ignore_empty)} :
            /\ TickDue =>
                  \/ ProcessesTick(p)
                  \/ \A more \in Arrivals : ProcessesTick(PollAfter(p, more))
            /\ inbox # <<>> /\ listener = "recv" => ReadsHead(p)

\* a tick is due and a datagram that passes the filter is next at the socket: the
\* poll yields the datagram and leaves the tick, which the poll after it
\* processes before it reads the datagram that has arrived in between
C23_Witness ==
    /\ CanPoll
    /\ TickDue
    /\ inbox # <<>>
    /\ listener = "recv"
    /\ \E p \in {PollWith(ignore_empty)} :
          /\ p.ret = "Some"
          /\ p.ticks = 0
          /\ p.taken = <<Head(inbox)>>
          /\ \E q \in {PollAfter(p, <<DgMatch>>)} :
                /\ q.ticks = 1
                /\ q.spawned = 1
                /\ q.ret = "Some"
                /\ DgMatch \in Range(q.taken)

SpawnsOrTicks == Len(tasks') # Len(tasks) \/ sent' # sent \/ ticks' # ticks

\* C24: query tasks are spawned by listen() and by polls of the output stream
\* only.  The call of listen() spawns exactly one, the first, and processes no
\* tick; after it, every step that spawns a query task, sends a query or
\* processes a tick is a poll of the output stream, so that with no poll the
\* first query stays the only one however far the clock advances.
C24_SpawnOnlyInPoll ==
    [][/\ phase = "built" =>
             /\ tasks = <<>>
             /\ IF phase' = "listening"
                THEN Len(tasks') = 1 /\ Len(sent') = 1 /\ ticks' = 0
                ELSE ~SpawnsOrTicks
       /\ phase # "built" /\ SpawnsOrTicks => Poll]_vars

\* listen() was called two intervals ago or more, no tick has been processed and
\* nothing was read: the query of listen() is the only one
C24_Witness ==
    /\ phase = "listening"
    /\ now >= 2 * send_request_interval
    /\ deadline = send_request_interval
    /\ ticks = 0
    /\ received = <<>>
    /\ Len(tasks) = 1
    /\ Len(sent) = 1

CorruptedCount == Cardinality({k \in DOMAIN received : Corrupted(received[k])})

\* C25: the listener decodes each datagram from its own bytes only.  Whatever
\* the buffer holds from the datagrams read before, the bytes decoded for the
\* datagram next at the socket are its own first count bytes, and the turn of
\* the loop ends as it does for that datagram alone; so the responses delivered
\* are, in order, those of the datagrams read whose own bytes decode, and one
\* warning is logged for each datagram read whose own bytes do not.
C25_OwnBytesOnly ==
    /\ SelectSeq(delivered, IsOk) = DecodedOf(SelectSeq(received, Decodes))
    /\ logged.decode_warn = CorruptedCount
    /\ listener = "recv" /\ inbox # <<>> =>
          \A r \in {recv_from(multihome, Head(inbox), DEFAULT_BUFFER_SIZE)} :
          \A buf \in {buffer_write(recv_buffer, Head(inbox), r)} :
              /\ r.ok => listen_slice(buf, r.count) = SubSeq(Head(inbox).bytes, 1, r.count)
              /\ listen_received_buffer(buf, r) = listen_received(Head(inbox), r)

\* a datagram announcing two records and holding one was read after a longer one
\* that decodes, whose last byte is still in the buffer behind it: one response
\* was delivered and one warning logged
C25_Witness ==
    /\ Len(received) = 2
    /\ received[1].bytes = <<2, 1, 2>>
    /\ received[2].bytes = <<2, 1>>
    /\ recv_buffer = <<2, 1, 2>>
    /\ Wire_parse(recv_buffer).ok
    /\ Len(delivered) = 1
    /\ logged.decode_warn = 1

====
